---- MODULE Spec2Model ----
(***************************************************************************)
(* Model of the Chile Compra monitor: the paginated fetcher                *)
(* (ChileCompraApiService), the persistence gateway (DatabaseService) and  *)
(* the extraction orchestrator (ExtractionService).                        *)
(*                                                                         *)
(* One step of the model is the code a handler runs between two awaits:    *)
(* an action resumes a suspended call with the answer of the remote API,   *)
(* of MongoDB or of the mail endpoint, and runs the code up to the next    *)
(* await.  The answers of the three remote parties are the model's         *)
(* nondeterminism.  Time is counted in whole days.                         *)
(***************************************************************************)
EXTENDS Bags, FiniteSets, Integers, Sequences, TLC

(***************************************************************************)
(* Bounds of the exploration.                                              *)
(***************************************************************************)
MaxId == 2
MaxPageCount == 3
MaxPageLen == 1
MaxTransporteEndpoints == 2
MaxSoftwareEndpoints == 1
MaxNow == 1
MaxBatchLen == 3
MaxDbBatchLen == 2
MaxStored == 4
MaxSweepBatchLen == 1
MaxRuns == 2

(***************************************************************************)
(* Small helpers on sequences.                                             *)
(***************************************************************************)

Min(a, b) == IF a < b THEN a ELSE b

\* Array.prototype.slice(0, n) for 0 <= n
Slice0(s, n) == SubSeq(s, 1, Min(n, Len(s)))

SeqsUpTo(S, n) == UNION {[1..k -> S] : k \in 0..n}

(***************************************************************************)
(* Configuration: config/emprendimientos.ts.  A business line keeps the    *)
(* first endpoints of its list, as many as its bound says.                 *)
(***************************************************************************)
transporteEndpoints ==
    << "Servicios de Transporte General", "Servicios de Turismo y Viajes",
       "Transporte de Pasajeros", "Servicios de Transporte Región V" >>

softwareEndpoints ==
    << "Búsqueda por Software", "Inteligencia Artificial",
       "Desarrollo de Software", "Servicios de Informática",
       "Servicios de Sistemas", "Software de Aplicación",
       "Servicios de Base de Datos", "Servicios de Consultoría TI",
       "Software de Sistema", "Software de Desarrollo" >>

transporteConfig ==
    [id |-> "transporte", name |-> "Servicios de Transporte",
     emailRecipients |-> << "EMAIL_TO" >>,
     endpoints |-> Slice0(transporteEndpoints, MaxTransporteEndpoints)]

softwareConfig ==
    [id |-> "software", name |-> "Servicios de Software y Tecnología",
     emailRecipients |-> << "EMAIL_TO" >>,
     endpoints |-> Slice0(softwareEndpoints, MaxSoftwareEndpoints)]

emprendimientos == << transporteConfig, softwareConfig >>

(***************************************************************************)
(* Calendar dates.  A date string is the sequence of its characters; the   *)
(* missing parameter (undefined or "") is the empty sequence.  A Date is   *)
(* a day number (days since 1970-01-01, UTC), or NaN, the invalid Date.    *)
(***************************************************************************)
Digits == << "0", "1", "2", "3", "4", "5", "6", "7", "8", "9" >>

IsDigit(c) == \E i \in 1..10 : Digits[i] = c

DigitVal(c) == (CHOOSE i \in 1..10 : Digits[i] = c) - 1

\* an invalid Date
NaN == [nan |-> TRUE, time |-> 0]

Date(t) == [nan |-> FALSE, time |-> t]

\* /^\d{4}-\d{2}-\d{2}$/.test(s)
dateRegex(s) ==
    /\ Len(s) = 10
    /\ \A i \in {1, 2, 3, 4, 6, 7, 9, 10} : IsDigit(s[i])
    /\ s[5] = "-"
    /\ s[8] = "-"

IsLeapYear(y) == (y % 4 = 0 /\ y % 100 # 0) \/ y % 400 = 0

\* ECMAScript DayFromYear
DayFromYear(y) ==
    365 * (y - 1970) + ((y - 1969) \div 4) - ((y - 1901) \div 100)
        + ((y - 1601) \div 400)

DaysInMonth(y, m) ==
    IF m = 2 THEN (IF IsLeapYear(y) THEN 29 ELSE 28)
    ELSE IF m \in {4, 6, 9, 11} THEN 30 ELSE 31

RECURSIVE DaysBeforeMonth(_, _)
DaysBeforeMonth(y, m) ==
    IF m <= 1 THEN 0 ELSE DaysBeforeMonth(y, m - 1) + DaysInMonth(y, m - 1)

\* ECMAScript MakeDay for a month in 1..12; a day past the month's end
\* rolls over into the next month
MakeDay(y, m, d) == DayFromYear(y) + DaysBeforeMonth(y, m) + d - 1

\* new Date(s) for a string s that matches dateRegex (V8's date-only ISO
\* parse): an Invalid Date when the month is not 1..12 or the day not 1..31
ParseDate(s) ==
    LET y == 1000 * DigitVal(s[1]) + 100 * DigitVal(s[2])
               + 10 * DigitVal(s[3]) + DigitVal(s[4])
        m == 10 * DigitVal(s[6]) + DigitVal(s[7])
        d == 10 * DigitVal(s[9]) + DigitVal(s[10])
    IN  IF m < 1 \/ m > 12 \/ d < 1 \/ d > 31
        THEN NaN
        ELSE Date(MakeDay(y, m, d))

\* a > b on two Dates: false as soon as one of them is NaN
DateGreater(a, b) == ~a.nan /\ ~b.nan /\ a.time > b.time

Pad2(n) == << Digits[((n \div 10) % 10) + 1], Digits[(n % 10) + 1] >>

Pad4(n) ==
    << Digits[((n \div 1000) % 10) + 1], Digits[((n \div 100) % 10) + 1] >>
        \o Pad2(n)

YMD(y, m, d) == Pad4(y) \o << "-" >> \o Pad2(m) \o << "-" >> \o Pad2(d)

\* the years the model's clock can show
ClockYears == 2025..2026

\* date.toISOString().split("T")[0] for the Date of day number t
formatDate(t) ==
    LET y == CHOOSE yy \in ClockYears :
                 DayFromYear(yy) <= t /\ t < DayFromYear(yy + 1)
        n == t - DayFromYear(y)
        m == CHOOSE mm \in 1..12 :
                 /\ DaysBeforeMonth(y, mm) <= n
                 /\ n < DaysBeforeMonth(y, mm) + DaysInMonth(y, mm)
    IN  YMD(y, m, n - DaysBeforeMonth(y, m) + 1)

\* new Date("2025-08-01"): the first day of the initial extraction
startDate == ParseDate(YMD(2025, 8, 1)).time

\* the day the model's clock starts: the eve of startDate
InitialDay == startDate - 1

\* ExtractionService.generateDateRange with today = day number t
generateDateRange(isInitialRun, t) ==
    IF isInitialRun
    THEN [from |-> formatDate(startDate), to |-> formatDate(t)]
    ELSE [from |-> formatDate(t), to |-> formatDate(t)]

(***************************************************************************)
(* Records of the remote source and of the store.                          *)
(***************************************************************************)
Ids == 1..MaxId

\* an Oferta of the API, reduced to its numeric id
Ofertas == [id : Ids]

\* the resultados of one page
PageResults == SeqsUpTo(Ofertas, MaxPageLen)

\* the answers fetchPage can get: a failure (network error, timeout, a
\* success marker other than "OK", a malformed payload) or a page
FailedResponse == [ok |-> FALSE, pageCount |-> 0, resultados |-> << >>]

ApiResponses ==
    {FailedResponse}
        \cup [ok : {TRUE}, pageCount : 0..MaxPageCount, resultados : PageResults]

\* a stamping that differs from the code: the name of the first endpoint of
\* the business line, whichever endpoint was queried
OfertaDocumentFirstEndpoint(oferta, emprendimiento, endpoint, t) ==
    [id |-> oferta.id, emprendimiento |-> emprendimiento.id,
     endpoint_name |-> emprendimiento.endpoints[1], fecha_extraccion |-> t]

\* extractOffersForEndpoint: the OfertaDocument made of an Oferta
OfertaDocument(oferta, emprendimiento, endpoint, t) ==
    [id |-> oferta.id, emprendimiento |-> emprendimiento.id,
     endpoint_name |-> endpoint, fecha_extraccion |-> t]

ToDocuments(ofs, emprendimiento, endpoint, t) ==
    [i \in 1..Len(ofs) |-> OfertaDocument(ofs[i], emprendimiento, endpoint, t)]

\* a key that differs from the code's: the numeric id alone
IndexKeyIdOnly(doc) == << doc.id >>

\* the key of the unique index unique_oferta_emprendimiento
IndexKey(doc) == << doc.id, doc.emprendimiento >>

\* ExtractionService.removeDuplicateOffers: keeps the first record of each id
RECURSIVE FilterSeen(_, _)
FilterSeen(ofs, seen) ==
    IF ofs = << >> THEN << >>
    ELSE IF Head(ofs).id \in seen
         THEN FilterSeen(Tail(ofs), seen)
         ELSE << Head(ofs) >> \o FilterSeen(Tail(ofs), seen \cup {Head(ofs).id})

\* a filter that differs from the code: keeps the last record of each id
removeDuplicateOffersLast(ofs) ==
    LET kept == {i \in 1..Len(ofs) :
                    \A j \in (i + 1)..Len(ofs) : ofs[j].id # ofs[i].id}
        nth(k) == CHOOSE i \in kept : Cardinality({j \in kept : j < i}) = k - 1
    IN  [k \in 1..Cardinality(kept) |-> ofs[nth(k)]]

removeDuplicateOffers(ofs) == FilterSeen(ofs, {})

\* a selection that differs from the code: the last insertedCount records
SelectNuevasLast(ofertasUnicas, insertedCount) ==
    SubSeq(ofertasUnicas, Len(ofertasUnicas) - Min(insertedCount, Len(ofertasUnicas)) + 1,
           Len(ofertasUnicas))

\* processEmprendimiento step 4: ofertasUnicas.slice(0, insertedCount)
SelectNuevas(ofertasUnicas, insertedCount) == Slice0(ofertasUnicas, insertedCount)

\* processEmprendimiento step 6: the summary of a processed business line
\* (its fecha_extraccion is left out)
Summary(emprendimiento, ofertasUnicas, insertedCount) ==
    [emprendimiento |-> emprendimiento.name,
     total_ofertas |-> Len(ofertasUnicas),
     nuevas_ofertas |-> insertedCount,
     endpoints_consultados |-> emprendimiento.endpoints]

\* runCompleteExtraction: the summary of a business line that raised
ErrorSummary(emprendimiento) ==
    [emprendimiento |-> emprendimiento.name,
     total_ofertas |-> 0,
     nuevas_ofertas |-> 0,
     endpoints_consultados |-> << >>]

(***************************************************************************)
(* State.                                                                  *)
(*   run[r]       the call in progress in slot r: its position (pc), its   *)
(*                local variables, and the history of what it has done     *)
(*   store        the ofertas collection, a bag of documents               *)
(*   uniqueIndex  whether unique_oferta_emprendimiento exists              *)
(*   client, db, isConnected   the fields of DatabaseService (client and   *)
(*                db are TRUE when not null)                               *)
(*   now          the clock, a day number                                  *)
(*   runsStarted  the number of runCompleteExtraction calls that have      *)
(*                reached the loop over the business lines                 *)
(***************************************************************************)
VARIABLES run, store, uniqueIndex, client, db, isConnected, now, runsStarted,
          scheduler

vars ==
    << run, store, uniqueIndex, client, db, isConnected, now, runsStarted,
       scheduler >>

dbVars == << store, uniqueIndex, client, db, isConnected >>

\* the callers of the extraction path: an HTTP control operation and the
\* scheduled daily task
Slots == {"manual", "scheduled"}

NoParams == [date_from |-> << >>, date_to |-> << >>]

\* a slot in which nothing has been called yet
IdleRun ==
    [pc |-> "idle", entry |-> "none", outcome |-> "none",
     \* runCompleteExtraction
     dateRange |-> [from |-> << >>, to |-> << >>], summaries |-> << >>,
     empIdx |-> 0,
     \* extractOffersForEmprendimiento, processEmprendimiento
     endpointIdx |-> 0, ofertas |-> << >>, ofertasUnicas |-> << >>,
     ofertasNuevas |-> << >>,
     \* insertOfertas
     insertIdx |-> 0, insertedCount |-> 0, duplicateCount |-> 0,
     \* getOfertasWithParams, getAllOfertas
     params |-> NoParams, currentPage |-> 0, totalPages |-> 0,
     allOfertas |-> << >>, returned |-> << >>,
     \* history: the page requests issued, the pages received, the pageCount
     \* of the first page and the page whose request failed, in the current
     \* getAllOfertas call
     requests |-> << >>, pagesLog |-> << >>, firstPageCount |-> 0,
     failedPage |-> 0,
     \* history: the endpoints of the current business line done so far
     attempts |-> << >>,
     \* history: the index keys stored when the current insertOfertas call
     \* began, and the documents it has inserted
     storedBefore |-> {}, insertedNow |-> {},
     \* history: the mails of the run, and the business lines whose
     \* persistence step raised
     notifications |-> << >>, persistFailed |-> {},
     \* a direct call of a DatabaseService method: the message of the error
     \* it raised, and the value it returned
     error |-> "", result |-> << >>,
     \* history: the result of each insertOne of the current insertOfertas
     \* call; the store when the direct call began; whether the direct call
     \* repeats the insertOfertas call that returned just before it
     insertLog |-> << >>, storeAtCall |-> EmptyBag, repeated |-> FALSE,
     \* history: what the send of the business line just processed returned
     emailSent |-> "",
     \* limpiarOfertasAntiguas: its argument
     diasAntiguedad |-> 0,
     \* history: for each insertOne of the current insertOfertas call, whether
     \* the store held the pair of its record when it was attempted
     foundStored |-> << >>,
     \* history: the pauses between endpoints made for the current business
     \* line
     pauses |-> 0,
     \* history: whether every endpoint of the current business line failed
     fetchesFailed |-> FALSE]

\* a check that differs from the code: the isConnected flag is not read
isConnectionActiveClientOnly == client

\* DatabaseService.isConnectionActive
isConnectionActive == isConnected /\ client

StoredKeys(st) == {IndexKey(d) : d \in BagToSet(st)}

\* the number of stored documents with the index key k
CopiesOfKey(st, k) ==
    LET docs == {d \in BagToSet(st) : IndexKey(d) = k}
        RECURSIVE Sum(_)
        Sum(S) == IF S = {} THEN 0
                  ELSE LET d == CHOOSE x \in S : TRUE
                       IN  CopiesIn(d, st) + Sum(S \ {d})
    IN  Sum(docs)

\* whether a unique index on (id, emprendimiento) can be built on st
NoDuplicateKeys(st) == \A k \in StoredKeys(st) : CopiesOfKey(st, k) <= 1

(***************************************************************************)
(* TaskScheduler.  A task is "null" (no task), "stopped" (created by       *)
(* cron.schedule with scheduled: false, or stopped) or "started".          *)
(***************************************************************************)
\* the status that no route has reported yet
NoStatus ==
    [isRunning |-> FALSE, dailyTaskActive |-> FALSE, cleanupTaskActive |-> FALSE]

\* the TaskScheduler after its constructor, in an application that does not
\* listen yet; lastRoute and response are the history of the last scheduling
\* route served and of the status it reported
NewScheduler ==
    [dailyExtractionTask |-> "null", cleanupTask |-> "null",
     isRunning |-> FALSE, listening |-> FALSE,
     lastRoute |-> "none", response |-> NoStatus]

\* ScheduledTask.getStatus(), used as a boolean: the task is started
TaskGetStatus(task) == task = "started"

\* startAllTasks: startDailyExtraction and startWeeklyCleanup create the two
\* tasks, not started
startAllTasks(s) ==
    [s EXCEPT !.dailyExtractionTask = "stopped", !.cleanupTask = "stopped",
              !.isRunning = TRUE]

\* start: each task that exists and is not started is started
StartTask(task) ==
    IF task # "null" /\ ~TaskGetStatus(task) THEN "started" ELSE task

start(s) ==
    [s EXCEPT !.dailyExtractionTask = StartTask(@),
              !.cleanupTask = StartTask(@)]

\* stopAllTasks: each task is stopped and forgotten
stopAllTasks(s) ==
    [s EXCEPT !.dailyExtractionTask = "null", !.cleanupTask = "null",
              !.isRunning = FALSE]

\* getStatus (without nextDailyExecution)
getStatus(s) ==
    [isRunning |-> s.isRunning,
     dailyTaskActive |->
         s.dailyExtractionTask # "null" /\ TaskGetStatus(s.dailyExtractionTask),
     cleanupTaskActive |->
         s.cleanupTask # "null" /\ TaskGetStatus(s.cleanupTask)]

Init ==
    /\ scheduler = NewScheduler
    /\ run = [r \in Slots |-> IdleRun]
    /\ store = EmptyBag
    /\ uniqueIndex = FALSE
    /\ client = FALSE
    /\ db = FALSE
    /\ isConnected = FALSE
    /\ now = InitialDay
    /\ runsStarted = 0

(***************************************************************************)
(* ChileCompraApiService: getOfertasWithParams and getAllOfertas.          *)
(* The operators below take the local state s of a call and give it back   *)
(* as it is at the next await, or at the end of the call.                  *)
(***************************************************************************)
ClearFetch(s) ==
    [s EXCEPT !.params = NoParams, !.currentPage = 0, !.totalPages = 0,
              !.allOfertas = << >>, !.requests = << >>, !.pagesLog = << >>,
              !.firstPageCount = 0, !.failedPage = 0]

\* getOfertasWithParams returns ofs at time t: to the caller of a direct
\* call, or into extractOffersForEndpoint and extractOffersForEmprendimiento,
\* which push the documents and start the pause between endpoints
GetOfertasReturn(s, ofs, t) ==
    IF s.entry = "getOfertasWithParams"
    THEN [s EXCEPT !.pc = "done", !.outcome = "returned", !.returned = ofs]
    ELSE LET emprendimiento == emprendimientos[s.empIdx]
             endpoint == emprendimiento.endpoints[s.endpointIdx]
             docs == ToDocuments(ofs, emprendimiento, endpoint, t)
         IN  [ClearFetch(s) EXCEPT
                 !.pc = "pause",
                 !.ofertas = @ \o docs,
                 !.attempts = Append(@, [endpoint |-> endpoint, ok |-> TRUE,
                                         docs |-> docs])]

\* a catch that differs from the code: the loop over the endpoints is left
GetOfertasThrowBreak(s) ==
    IF s.entry = "getOfertasWithParams"
    THEN [s EXCEPT !.pc = "done", !.outcome = "thrown"]
    ELSE LET emprendimiento == emprendimientos[s.empIdx]
             endpoint == emprendimiento.endpoints[s.endpointIdx]
         IN  [ClearFetch(s) EXCEPT
                 !.pc = "nextEndpoint",
                 !.endpointIdx = Len(emprendimiento.endpoints) + 1,
                 !.attempts = Append(@, [endpoint |-> endpoint, ok |-> FALSE,
                                         docs |-> << >>])]

\* a notification: its kind, its business line and its recipients
Mail(kind, emprendimiento) ==
    [kind |-> kind, emprendimiento |-> emprendimiento.name,
     to |-> emprendimiento.emailRecipients]

\* a catch that differs from the code: the failure of an endpoint is raised
\* into the catch of processEmprendimiento, which mails the error
GetOfertasThrowPropagate(s) ==
    IF s.entry = "getOfertasWithParams"
    THEN [s EXCEPT !.pc = "done", !.outcome = "thrown"]
    ELSE LET emprendimiento == emprendimientos[s.empIdx]
         IN  [ClearFetch(s) EXCEPT
                 !.pc = "errorReport",
                 !.notifications = Append(@, Mail("error", emprendimiento))]

\* getOfertasWithParams raises: to the caller of a direct call, or into the
\* catch of extractOffersForEmprendimiento, which goes on with the next
\* endpoint
GetOfertasThrow(s) ==
    IF s.entry = "getOfertasWithParams"
    THEN [s EXCEPT !.pc = "done", !.outcome = "thrown"]
    ELSE LET emprendimiento == emprendimientos[s.empIdx]
             endpoint == emprendimiento.endpoints[s.endpointIdx]
         IN  [ClearFetch(s) EXCEPT
                 !.pc = "nextEndpoint",
                 !.endpointIdx = @ + 1,
                 !.attempts = Append(@, [endpoint |-> endpoint, ok |-> FALSE,
                                         docs |-> << >>])]

\* a validation that differs from the code: the order is not checked
ParamsRejectedNoOrder(params) ==
    \/ params.date_from = << >> \/ params.date_to = << >>
    \/ ~dateRegex(params.date_from) \/ ~dateRegex(params.date_to)

\* the validation of getOfertasWithParams: whether it raises on params
ParamsRejected(params) ==
    \/ params.date_from = << >> \/ params.date_to = << >>
    \/ ~dateRegex(params.date_from) \/ ~dateRegex(params.date_to)
    \/ DateGreater(ParseDate(params.date_from), ParseDate(params.date_to))

\* getOfertasWithParams up to the request for page 1
GetOfertasWithParams(s, params) ==
    LET called == [s EXCEPT !.params = params, !.allOfertas = << >>,
                            !.requests = << >>, !.pagesLog = << >>,
                            !.firstPageCount = 0, !.failedPage = 0]
    IN  IF ParamsRejected(params)
        THEN GetOfertasThrow(called)
        ELSE [called EXCEPT !.pc = "awaitPage", !.currentPage = 1,
                            !.totalPages = 1, !.requests = << 1 >>]

\* a catch that differs from the code: the failure always propagates
CatchPageErrorRethrow(s, t) == GetOfertasThrow(s)

\* a catch that differs from the code: what was accumulated is always returned
CatchPageErrorSalvage(s, t) == GetOfertasReturn(s, s.allOfertas, t)

\* the catch of getAllOfertas: what was accumulated, if anything
CatchPageError(s, t) ==
    IF Len(s.allOfertas) > 0
    THEN GetOfertasReturn(s, s.allOfertas, t)
    ELSE GetOfertasThrow(s)

\* a loop that differs from the code: the next page is requested at once
NextPageNoDelay(s, t) ==
    IF s.currentPage + 1 <= s.totalPages
    THEN [s EXCEPT !.pc = "awaitPage", !.currentPage = @ + 1,
                   !.requests = Append(@, s.currentPage + 1)]
    ELSE GetOfertasReturn(s, s.allOfertas, t)

\* a loop that differs from the code: it stops one page early
NextPageShort(s, t) ==
    IF s.currentPage + 1 < s.totalPages
    THEN [s EXCEPT !.pc = "delay", !.currentPage = @ + 1]
    ELSE GetOfertasReturn(s, s.allOfertas, t)

\* the page after currentPage, or the end of the loop of getAllOfertas
NextPage(s, t) ==
    IF s.currentPage + 1 <= s.totalPages
    THEN [s EXCEPT !.pc = "delay", !.currentPage = @ + 1]
    ELSE GetOfertasReturn(s, s.allOfertas, t)

\* getAllOfertas resumes with the answer resp to the request for currentPage
FetchPageResume(s, resp, t) ==
    IF ~resp.ok
    THEN CatchPageError([s EXCEPT !.failedPage = s.currentPage], t)
    ELSE NextPage([s EXCEPT
                      !.totalPages = IF s.currentPage = 1 THEN resp.pageCount
                                     ELSE @,
                      !.allOfertas = @ \o resp.resultados,
                      !.firstPageCount = IF s.currentPage = 1
                                         THEN resp.pageCount ELSE @,
                      !.pagesLog = Append(@, resp.resultados)], t)

\* the delay before a page after the first is over: the page is requested
DelayResume(s) ==
    [s EXCEPT !.pc = "awaitPage", !.requests = Append(@, s.currentPage)]

(***************************************************************************)
(* ExtractionService: processEmprendimiento and runCompleteExtraction.     *)
(***************************************************************************)
ClearEmprendimiento(s) ==
    [s EXCEPT !.endpointIdx = 0, !.ofertas = << >>, !.ofertasUnicas = << >>,
              !.ofertasNuevas = << >>, !.insertIdx = 0, !.insertedCount = 0,
              !.duplicateCount = 0, !.attempts = << >>, !.pauses = 0, !.storedBefore = {},
              !.insertedNow = {}, !.insertLog = << >>, !.error = "",
              !.foundStored = << >>, !.fetchesFailed = FALSE]

\* what the mail endpoint does with a POST: it answers 200, it answers
\* another status of the 2xx range, it answers a status outside that range,
\* the connection fails, or no answer comes within the timeout
MailAnswers == {"200", "204", "500", "network", "timeout"}

\* axios.post raises on a status outside 2xx, a network error and a timeout
PostRaises(answer) == answer \in {"500", "network", "timeout"}

\* a send that differs from the code: what axios.post raises is not caught
sendOfertasReportNoCatch(answer) ==
    IF PostRaises(answer) THEN "raised"
    ELSE IF answer = "200" THEN "true" ELSE "false"

\* EmailService.sendOfertasReport: true on status 200, false on another
\* status, and false from its catch
sendOfertasReport(answer) ==
    IF PostRaises(answer) THEN "false"
    ELSE IF answer = "200" THEN "true" ELSE "false"

\* EmailService.sendErrorNotification: response.status === 200, and false
\* from its catch
sendErrorNotification(answer) ==
    IF PostRaises(answer) THEN "false"
    ELSE IF answer = "200" THEN "true" ELSE "false"

\* processEmprendimiento returns its summary: runCompleteExtraction pushes
\* it and goes on with the next business line
ProcessReturn(s) ==
    LET emprendimiento == emprendimientos[s.empIdx]
    IN  [ClearEmprendimiento(s) EXCEPT
            !.pc = "nextEmp",
            !.summaries = Append(@, Summary(emprendimiento, s.ofertasUnicas,
                                            s.insertedCount)),
            !.empIdx = @ + 1]

\* a catch that differs from the code: the summary of the error carries
\* the counts of the business line
ProcessThrowCounts(s) ==
    LET emprendimiento == emprendimientos[s.empIdx]
    IN  [ClearEmprendimiento(s) EXCEPT
            !.pc = "nextEmp",
            !.summaries = Append(@, Summary(emprendimiento, s.ofertasUnicas,
                                            s.insertedCount)),
            !.empIdx = @ + 1]

\* a catch that differs from the code: runCompleteExtraction raises
ProcessThrowAbort(s) == [s EXCEPT !.pc = "done", !.outcome = "thrown"]

\* processEmprendimiento rethrows: runCompleteExtraction pushes the summary
\* of the error and goes on with the next business line
ProcessThrow(s) ==
    LET emprendimiento == emprendimientos[s.empIdx]
    IN  [ClearEmprendimiento(s) EXCEPT
            !.pc = "nextEmp",
            !.summaries = Append(@, ErrorSummary(emprendimiento)),
            !.empIdx = @ + 1]

\* processEmprendimiento after sendOfertasReport: the summary is built and
\* returned; had the send raised, the catch would mail the error and rethrow
ReportResume(s, emailSent) ==
    LET emprendimiento == emprendimientos[s.empIdx]
    IN  IF emailSent = "raised"
        THEN IF Len(emprendimiento.emailRecipients) > 0
             THEN [s EXCEPT
                      !.pc = "errorReport",
                      !.notifications = Append(@, Mail("error", emprendimiento))]
             ELSE ProcessThrow(s)
        ELSE [ProcessReturn(s) EXCEPT !.emailSent = emailSent]

\* the catch of processEmprendimiento after sendErrorNotification: the
\* error is rethrown
ErrorReportResume(s, emailSent) ==
    [ProcessThrow(s) EXCEPT !.emailSent = emailSent]

\* the messages of the errors of DatabaseService: its own, and any error of
\* the MongoDB driver
NotConnected == "Base de datos no conectada"

StorageError == "MongoError"

\* a catch that differs from the code: the error notification is sent but
\* not awaited
PersistThrowNoAwait(s, error) ==
    IF s.entry = "insertOfertas"
    THEN [s EXCEPT !.pc = "done", !.outcome = "thrown", !.error = error]
    ELSE LET emprendimiento == emprendimientos[s.empIdx]
             caught == [s EXCEPT !.persistFailed = @ \cup {s.empIdx},
                                 !.error = error]
         IN  IF Len(emprendimiento.emailRecipients) > 0
             THEN ProcessThrow(
                      [caught EXCEPT
                          !.notifications = Append(@, Mail("error", emprendimiento))])
             ELSE ProcessThrow(caught)

\* insertOfertas raises error: to the caller of a direct call, or into the
\* catch of processEmprendimiento, which mails the error
PersistThrow(s, error) ==
    IF s.entry = "insertOfertas"
    THEN [s EXCEPT !.pc = "done", !.outcome = "thrown", !.error = error]
    ELSE LET emprendimiento == emprendimientos[s.empIdx]
             caught == [s EXCEPT !.persistFailed = @ \cup {s.empIdx},
                                 !.error = error]
         IN  IF Len(emprendimiento.emailRecipients) > 0
             THEN [caught EXCEPT
                      !.pc = "errorReport",
                      !.notifications = Append(@, Mail("error", emprendimiento))]
             ELSE ProcessThrow(caught)

\* insertOfertas returns its two counts: to the caller of a direct call, or
\* into processEmprendimiento, where the new records are selected and mailed
InsertReturn(s) ==
    IF s.entry = "insertOfertas"
    THEN [s EXCEPT !.pc = "done", !.outcome = "returned",
                   !.result = [insertedCount |-> s.insertedCount,
                               duplicateCount |-> s.duplicateCount]]
    ELSE LET emprendimiento == emprendimientos[s.empIdx]
             selected == [s EXCEPT !.ofertasNuevas =
                                       SelectNuevas(s.ofertasUnicas, s.insertedCount)]
         IN  IF Len(emprendimiento.emailRecipients) > 0
             THEN [selected EXCEPT
                      !.pc = "report",
                      !.notifications = Append(@, Mail("report", emprendimiento))]
             ELSE ProcessReturn(selected)

\* insertOfertas(batch) up to its first insertOne; the batch is kept in
\* ofertasUnicas, the name it has in processEmprendimiento
InsertOfertasCall(s, batch, connected, keys) ==
    LET called == [s EXCEPT !.ofertasUnicas = batch, !.insertedCount = 0,
                            !.duplicateCount = 0, !.storedBefore = keys,
                            !.insertedNow = {}, !.insertLog = << >>,
                            !.foundStored = << >>]
    IN  IF ~connected THEN PersistThrow(called, NotConnected)
        ELSE IF Len(batch) = 0 THEN InsertReturn(called)
        ELSE [called EXCEPT !.pc = "insert", !.insertIdx = 1]

\* the end of the loop over the endpoints: the duplicates are removed and
\* insertOfertas is called
InsertOfertas(s, connected, keys) ==
    InsertOfertasCall([s EXCEPT !.ofertas = << >>, !.attempts = << >>,
                                !.pauses = 0,
                                !.fetchesFailed =
                                    \A i \in 1..Len(s.attempts) : ~s.attempts[i].ok],
                      removeDuplicateOffers(s.ofertas), connected, keys)

\* a loop that differs from the code: every error of insertOne is counted
\* as a duplicate
InsertOneResumeSwallow(s, result) ==
    LET doc == s.ofertasUnicas[s.insertIdx]
        logged == [s EXCEPT !.insertLog = Append(@, result)]
        counted ==
            IF result = "inserted"
            THEN [logged EXCEPT !.insertedCount = @ + 1,
                                !.insertedNow = @ \cup {doc}]
            ELSE [logged EXCEPT !.duplicateCount = @ + 1]
    IN  IF s.insertIdx < Len(s.ofertasUnicas)
        THEN [counted EXCEPT !.insertIdx = @ + 1]
        ELSE InsertReturn(counted)

\* insertOfertas resumes with the result of the insertOne of record
\* insertIdx: "inserted", "duplicate" (error code 11000) or "error"
InsertOneResume(s, result) ==
    LET doc == s.ofertasUnicas[s.insertIdx]
        logged == [s EXCEPT !.insertLog = Append(@, result)]
        counted ==
            IF result = "inserted"
            THEN [logged EXCEPT !.insertedCount = @ + 1,
                                !.insertedNow = @ \cup {doc}]
            ELSE [logged EXCEPT !.duplicateCount = @ + 1]
    IN  IF result = "error" THEN PersistThrow(logged, StorageError)
        ELSE IF s.insertIdx < Len(s.ofertasUnicas)
        THEN [counted EXCEPT !.insertIdx = @ + 1]
        ELSE InsertReturn(counted)

\* the head of the loop over the endpoints of a business line
NextEndpoint(s, connected, keys) ==
    LET emprendimiento == emprendimientos[s.empIdx]
    IN  IF s.endpointIdx <= Len(emprendimiento.endpoints)
        THEN GetOfertasWithParams(s, [date_from |-> s.dateRange.from,
                                      date_to |-> s.dateRange.to])
        ELSE InsertOfertas(s, connected, keys)

\* the head of the loop over the business lines
NextEmprendimiento(s) ==
    IF s.empIdx <= Len(emprendimientos)
    THEN [s EXCEPT !.pc = "nextEndpoint", !.endpointIdx = 1,
                   !.ofertas = << >>, !.attempts = << >>, !.pauses = 0, !.emailSent = ""]
    ELSE [s EXCEPT !.pc = "done", !.outcome = "returned", !.emailSent = ""]

\* runCompleteExtraction up to the check of the connection
StartRun(isInitialRun, t) ==
    [IdleRun EXCEPT !.entry = "runCompleteExtraction",
                    !.dateRange = generateDateRange(isInitialRun, t)]

(***************************************************************************)
(* Actions.                                                                *)
(***************************************************************************)
SetRun(r, s) == run' = [run EXCEPT ![r] = s]

\* runCompleteExtraction(isInitialRun) is called: the date range, then the
\* connection check, then connect() up to client.connect() or the loop
RunCompleteExtraction(r, isInitialRun) ==
    /\ run[r].pc \in {"idle", "done"}
    /\ runsStarted < MaxRuns
    /\ IF isConnectionActive
       THEN /\ SetRun(r, [StartRun(isInitialRun, now) EXCEPT
                             !.pc = "nextEmp", !.empIdx = 1])
            /\ runsStarted' = runsStarted + 1
            /\ UNCHANGED client
       ELSE /\ SetRun(r, [StartRun(isInitialRun, now) EXCEPT !.pc = "connect"])
            /\ client' = TRUE
            /\ UNCHANGED runsStarted
    /\ UNCHANGED << store, uniqueIndex, db, isConnected, now, scheduler >>

\* connect(): client.connect() answers; on success db and isConnected are
\* set and createIndexes begins, on failure connect() raises and so does
\* runCompleteExtraction
ClientConnect(r) ==
    /\ run[r].pc = "connect"
    /\ \E ok \in BOOLEAN :
          IF ok
          THEN /\ db' = TRUE
               /\ isConnected' = TRUE
               /\ SetRun(r, [run[r] EXCEPT !.pc = "createIndexes"])
          ELSE /\ SetRun(r, [run[r] EXCEPT !.pc = "done", !.outcome = "thrown"])
               /\ UNCHANGED << db, isConnected >>
    /\ UNCHANGED << store, uniqueIndex, client, now, runsStarted, scheduler >>

\* connect() returns: to the caller of a direct call, or into
\* runCompleteExtraction, which enters its loop
ConnectReturn(s) ==
    IF s.entry = "runCompleteExtraction"
    THEN [s EXCEPT !.pc = "nextEmp", !.empIdx = 1]
    ELSE [s EXCEPT !.pc = "done", !.outcome = "returned"]

\* createIndexes(): the createIndex calls answer.  They succeed, which
\* needs a store without duplicate keys, or one of them fails, with the
\* unique index built (built) or not, and connect() raises
CreateIndexes(r) ==
    /\ run[r].pc = "createIndexes"
    /\ \E ok \in BOOLEAN, built \in BOOLEAN :
          IF ok
          THEN /\ uniqueIndex \/ NoDuplicateKeys(store)
               /\ uniqueIndex' = TRUE
               /\ SetRun(r, ConnectReturn(run[r]))
               /\ runsStarted' = IF run[r].entry = "runCompleteExtraction"
                                 THEN runsStarted + 1 ELSE runsStarted
          ELSE /\ uniqueIndex' = (uniqueIndex \/ (built /\ NoDuplicateKeys(store)))
               /\ SetRun(r, [run[r] EXCEPT !.pc = "done", !.outcome = "thrown"])
               /\ UNCHANGED runsStarted
    /\ UNCHANGED << store, client, db, isConnected, now, scheduler >>

\* the loop of runCompleteExtraction reaches its head
StepNextEmprendimiento(r) ==
    /\ run[r].pc = "nextEmp"
    /\ SetRun(r, NextEmprendimiento(run[r]))
    /\ UNCHANGED << dbVars, now, runsStarted, scheduler >>

\* the loop of extractOffersForEmprendimiento reaches its head
StepNextEndpoint(r) ==
    /\ run[r].pc = "nextEndpoint"
    /\ SetRun(r, NextEndpoint(run[r], isConnectionActive, StoredKeys(store)))
    /\ UNCHANGED << dbVars, now, runsStarted, scheduler >>

\* the remote source answers the page request in flight
FetchPageResponse(r) ==
    /\ run[r].pc = "awaitPage"
    /\ \E resp \in ApiResponses : SetRun(r, FetchPageResume(run[r], resp, now))
    /\ UNCHANGED << dbVars, now, runsStarted, scheduler >>

\* the delay between two page requests elapses
DelayElapsed(r) ==
    /\ run[r].pc = "delay"
    /\ SetRun(r, DelayResume(run[r]))
    /\ UNCHANGED << dbVars, now, runsStarted, scheduler >>

\* the pause after an endpoint elapses
PauseElapsed(r) ==
    /\ run[r].pc = "pause"
    /\ SetRun(r, [run[r] EXCEPT !.pc = "nextEndpoint", !.endpointIdx = @ + 1,
                                !.pauses = @ + 1])
    /\ UNCHANGED << dbVars, now, runsStarted, scheduler >>

\* the results insertOne(doc) can have on the store as it is
InsertOneResults(doc) ==
    IF uniqueIndex /\ IndexKey(doc) \in StoredKeys(store)
    THEN {"duplicate", "error"}
    ELSE {"inserted", "error"}

\* a collection that differs from MongoDB's: an insertOne refused as a
\* duplicate overwrites the stored documents of the same key
InsertOneStoreReplace(st, doc, result) ==
    IF result = "inserted" THEN st (+) SetToBag({doc})
    ELSE IF result = "duplicate"
    THEN LET others == {d \in BagToSet(st) : IndexKey(d) # IndexKey(doc)}
         IN  [d \in others |-> st[d]] (+) SetToBag({doc})
    ELSE st

\* the collection after insertOne(doc) has had the result result
InsertOneStore(st, doc, result) ==
    IF result = "inserted" THEN st (+) SetToBag({doc}) ELSE st

\* MongoDB answers the insertOne in flight
InsertOneResponse(r) ==
    /\ run[r].pc = "insert"
    /\ LET doc == run[r].ofertasUnicas[run[r].insertIdx]
       IN  \E result \in InsertOneResults(doc) :
              /\ store' = InsertOneStore(store, doc, result)
              /\ SetRun(r, InsertOneResume(
                               [run[r] EXCEPT !.foundStored =
                                   Append(@, IndexKey(doc) \in StoredKeys(store))],
                               result))
    /\ UNCHANGED << uniqueIndex, client, db, isConnected, now, runsStarted, scheduler >>

\* the mail endpoint answers the report (sendOfertasReport gives emailSent)
ReportResponse(r) ==
    /\ run[r].pc = "report"
    /\ \E answer \in MailAnswers :
          SetRun(r, ReportResume(run[r], sendOfertasReport(answer)))
    /\ UNCHANGED << dbVars, now, runsStarted, scheduler >>

\* the mail endpoint answers the error notification
ErrorReportResponse(r) ==
    /\ run[r].pc = "errorReport"
    /\ \E answer \in MailAnswers :
          SetRun(r, ErrorReportResume(run[r], sendErrorNotification(answer)))
    /\ UNCHANGED << dbVars, now, runsStarted, scheduler >>

\* a deletion that differs from the code: the boundary is deleted too
DeleteOlderThanInclusive(st, fechaLimite) ==
    LET kept == {d \in BagToSet(st) : ~(d.fecha_extraccion <= fechaLimite)}
    IN  [d \in kept |-> st[d]]

\* deleteMany({fecha_extraccion: {$lt: fechaLimite}}) on the collection st
DeleteOlderThan(st, fechaLimite) ==
    LET kept == {d \in BagToSet(st) : ~(d.fecha_extraccion < fechaLimite)}
    IN  [d \in kept |-> st[d]]

\* the values of diasAntiguedad tried
DiasAntiguedad == 0..MaxNow

\* limpiarOfertasAntiguas(dias) on a connected store: deleteMany of the
\* documents with fecha_extraccion < now - dias
limpiarOfertasAntiguas(dias) ==
    /\ isConnectionActive
    /\ store' = DeleteOlderThan(store, now - dias)
    /\ UNCHANGED << run, uniqueIndex, client, db, isConnected, now, runsStarted, scheduler >>

\* a day passes
Tick ==
    /\ now < InitialDay + MaxNow
    /\ now' = now + 1
    /\ UNCHANGED << run, dbVars, runsStarted, scheduler >>

\* getOfertasWithParams(params) is called directly
CallGetOfertasWithParams(r, params) ==
    /\ run[r].pc \in {"idle", "done"}
    /\ SetRun(r, GetOfertasWithParams(
                     [IdleRun EXCEPT !.entry = "getOfertasWithParams"], params))
    /\ UNCHANGED << dbVars, now, runsStarted, scheduler >>

\* the date bounds tried: missing, three days in a row, two strings in
\* another format, a month that does not exist and a day that does not
DateInputs ==
    { << >>, YMD(2025, 7, 31), YMD(2025, 8, 1), YMD(2025, 8, 2),
      << "2", "0", "2", "5", "-", "8", "-", "1" >>,
      << "0", "1", "-", "0", "8", "-", "2", "0", "2", "5" >>,
      YMD(2025, 13, 1), YMD(2025, 2, 30) }

ParamInputs == [date_from : DateInputs, date_to : DateInputs]

(***************************************************************************)
(* Spec: extraction runs, one at a time, with retention sweeps and the     *)
(* clock.  SpecFetch: direct calls of the paginated fetcher.               *)
(***************************************************************************)
Next ==
    \/ \E isInitialRun \in BOOLEAN : RunCompleteExtraction("manual", isInitialRun)
    \/ ClientConnect("manual")
    \/ CreateIndexes("manual")
    \/ StepNextEmprendimiento("manual")
    \/ StepNextEndpoint("manual")
    \/ FetchPageResponse("manual")
    \/ DelayElapsed("manual")
    \/ PauseElapsed("manual")
    \/ InsertOneResponse("manual")
    \/ ReportResponse("manual")
    \/ ErrorReportResponse("manual")
    \/ \E dias \in DiasAntiguedad : limpiarOfertasAntiguas(dias)
    \/ Tick

Spec == Init /\ [][Next]_vars

NextFetch ==
    \/ \E params \in ParamInputs : CallGetOfertasWithParams("manual", params)
    \/ FetchPageResponse("manual")
    \/ DelayElapsed("manual")

SpecFetch == Init /\ [][NextFetch]_vars

(***************************************************************************)
(* Properties.                                                             *)
(***************************************************************************)
\* the records of a sequence of pages, in page order
RECURSIVE Concat(_)
Concat(pages) ==
    IF pages = << >> THEN << >> ELSE Head(pages) \o Concat(Tail(pages))

\* a slot in which runCompleteExtraction is or was running
InRun(r) == run[r].entry = "runCompleteExtraction"

\* a slot in which getOfertasWithParams was called directly
InFetch(r) == run[r].entry = "getOfertasWithParams"

\* C1: the store never holds two records with the same (numeric id,
\* business-line id) pair.
C1_NoDuplicatePairs == NoDuplicateKeys(store)

\* C2: with the unique index in place, every record handed to
\* sendOfertasReport was inserted by this run's insertOfertas call, and its
\* (numeric id, business-line id) pair was not stored when that call began.
C2_ReportedRecordsAreNew ==
    \A r \in Slots :
        (InRun(r) /\ run[r].pc = "report" /\ uniqueIndex) =>
            \A i \in 1..Len(run[r].ofertasNuevas) :
                /\ run[r].ofertasNuevas[i] \in run[r].insertedNow
                /\ IndexKey(run[r].ofertasNuevas[i]) \notin run[r].storedBefore

C4_AlwaysReturnsAllSummaries ==
    \A r \in Slots :
        (InRun(r) /\ run[r].pc = "done") =>
            /\ run[r].outcome = "returned"
            /\ Len(run[r].summaries) = Len(emprendimientos)
            /\ \A i \in 1..Len(emprendimientos) :
                   run[r].summaries[i].emprendimiento = emprendimientos[i].name

\* the mails of kind kind sent for business line i in the run of slot r
MailsFor(r, kind, i) ==
    {k \in 1..Len(run[r].notifications) :
        run[r].notifications[k] = Mail(kind, emprendimientos[i])}

\* C5: when the persistence step of business line L raises, an error report
\* goes to L's recipients, L's summary has total 0, new 0 and no endpoint,
\* and the run goes on: every later business line is processed and the run
\* returns.
C5_FailedLineIsReportedAndSkipped ==
    \A r \in Slots : \A L \in run[r].persistFailed :
        /\ MailsFor(r, "error", L) # {}
        /\ run[r].notifications[CHOOSE k \in MailsFor(r, "error", L) : TRUE].to
               = emprendimientos[L].emailRecipients
        /\ \/ run[r].pc = "errorReport" /\ run[r].empIdx = L
           \/ /\ Len(run[r].summaries) >= L
              /\ run[r].summaries[L] = ErrorSummary(emprendimientos[L])
        /\ run[r].pc = "done" =>
               /\ run[r].outcome = "returned"
               /\ \A K \in (L + 1)..Len(emprendimientos) :
                      /\ Len(run[r].summaries) >= K
                      /\ MailsFor(r, "report", K) \cup MailsFor(r, "error", K) # {}

\* C5's case: the first business line failed in its persistence step, the
\* second one was stored and reported, and the run has returned
C5_Witness ==
    \E r \in Slots :
        /\ InRun(r) /\ run[r].pc = "done"
        /\ run[r].persistFailed = {1}
        /\ run[r].summaries[2].nuevas_ofertas > 0
        /\ MailsFor(r, "report", 2) # {}

\* C6: within a business line every endpoint is tried once, in the order of
\* the configuration, whichever of them fail; the batch holds the documents
\* of the endpoints that answered, in that order; and the loop is left only
\* after the last endpoint.
C6_EveryEndpointAttempted ==
    \A r \in Slots :
        (InRun(r) /\ run[r].pc \in {"nextEndpoint", "awaitPage", "delay", "pause"}) =>
            LET endpoints == emprendimientos[run[r].empIdx].endpoints
                tried == IF run[r].pc = "pause" THEN run[r].endpointIdx
                         ELSE run[r].endpointIdx - 1
            IN  /\ Len(run[r].attempts) = tried
                /\ tried <= Len(endpoints)
                /\ \A i \in 1..tried : run[r].attempts[i].endpoint = endpoints[i]
                /\ \A i \in 1..tried :
                       ~run[r].attempts[i].ok => run[r].attempts[i].docs = << >>
                /\ run[r].ofertas
                       = Concat([i \in 1..tried |-> run[r].attempts[i].docs])
                /\ run[r].pc # "nextEndpoint" => run[r].endpointIdx <= Len(endpoints)

\* C6's case: the loop over two endpoints is over, the first endpoint
\* failed, the second one answered and its documents are in the batch
C6_Witness ==
    \E r \in Slots :
        /\ InRun(r) /\ run[r].pc = "nextEndpoint"
        /\ run[r].endpointIdx = Len(emprendimientos[run[r].empIdx].endpoints) + 1
        /\ Len(run[r].attempts) = 2
        /\ ~run[r].attempts[1].ok
        /\ run[r].attempts[2].ok
        /\ run[r].ofertas = run[r].attempts[2].docs
        /\ run[r].ofertas # << >>

\* the page numbers 1..n in increasing order
PagesUpTo(n) == [i \in 1..n |-> i]

\* C7: when the request for page k fails in getAllOfertas, the requests
\* issued are those for pages 1..k and no other; the call returns what was
\* accumulated if that is at least one record, and raises otherwise.
C7_PageFailureStopsPagination ==
    \A r \in Slots :
        (InFetch(r) /\ run[r].failedPage # 0) =>
            /\ run[r].pc = "done"
            /\ run[r].requests = PagesUpTo(run[r].failedPage)
            /\ Len(run[r].pagesLog) = run[r].failedPage - 1
            /\ IF Len(Concat(run[r].pagesLog)) >= 1
               THEN /\ run[r].outcome = "returned"
                    /\ run[r].returned = Concat(run[r].pagesLog)
               ELSE run[r].outcome = "thrown"

\* C7's case: the first page announced three pages, the request for page 2
\* failed, and page 3 was never requested
C7_Witness ==
    \E r \in Slots :
        /\ InFetch(r) /\ run[r].pc = "done"
        /\ run[r].firstPageCount = 3
        /\ run[r].failedPage = 2
        /\ run[r].requests = << 1, 2 >>

\* C8 as stated: whenever pages 1..k-1 succeeded and page k >= 2 fails, the
\* fetcher returns the records of pages 1..k-1 without raising.
C8_AsStated ==
    \A r \in Slots :
        (InFetch(r) /\ run[r].failedPage >= 2) =>
            /\ run[r].outcome = "returned"
            /\ run[r].returned = Concat(run[r].pagesLog)

\* C8: when pages 1..k-1 succeeded and page k >= 2 fails, the fetcher
\* returns the records of pages 1..k-1 without raising if these pages held
\* at least one record; if they held none, the failure reaches the caller.
C8_SalvagesNonEmptyPages ==
    \A r \in Slots :
        (InFetch(r) /\ run[r].failedPage >= 2) =>
            \/ /\ Concat(run[r].pagesLog) # << >>
               /\ run[r].outcome = "returned"
               /\ run[r].returned = Concat(run[r].pagesLog)
            \/ /\ Concat(run[r].pagesLog) = << >>
               /\ run[r].outcome = "thrown"

\* C8's case: page 2 of 3 failed after page 1 had brought a record, and
\* the record of page 1 was returned
C8_Witness ==
    \E r \in Slots :
        /\ InFetch(r) /\ run[r].pc = "done"
        /\ run[r].firstPageCount = 3
        /\ run[r].failedPage = 2
        /\ run[r].outcome = "returned"
        /\ Len(run[r].returned) = 1
        /\ run[r].returned = run[r].pagesLog[1]

\* C9: the page requests are always those for pages 1, 2, ... in this
\* order; when the first page announced n >= 1 pages and every request
\* succeeded, n requests were issued and the call returns the records of
\* the n pages in page order.
C9_AllPagesRequestedInOrder ==
    \A r \in Slots :
        InFetch(r) =>
            /\ run[r].requests = PagesUpTo(Len(run[r].requests))
            /\ (/\ run[r].pc = "done"
                /\ run[r].failedPage = 0
                /\ run[r].firstPageCount >= 1) =>
                   /\ run[r].outcome = "returned"
                   /\ Len(run[r].requests) = run[r].firstPageCount
                   /\ Len(run[r].pagesLog) = run[r].firstPageCount
                   /\ run[r].returned = Concat(run[r].pagesLog)

\* C9's case: three pages announced, three pages of one record received
C9_Witness ==
    \E r \in Slots :
        /\ InFetch(r) /\ run[r].pc = "done"
        /\ run[r].failedPage = 0
        /\ run[r].firstPageCount = 3
        /\ run[r].requests = << 1, 2, 3 >>
        /\ Len(run[r].returned) = 3

\* the year, month and day written in a string that matches dateRegex
DateFields(s) ==
    [y |-> 1000 * DigitVal(s[1]) + 100 * DigitVal(s[2])
             + 10 * DigitVal(s[3]) + DigitVal(s[4]),
     m |-> 10 * DigitVal(s[6]) + DigitVal(s[7]),
     d |-> 10 * DigitVal(s[9]) + DigitVal(s[10])]

\* a string that names a day of the calendar
IsCalendarDate(s) ==
    /\ dateRegex(s)
    /\ DateFields(s).m \in 1..12
    /\ DateFields(s).d \in 1..DaysInMonth(DateFields(s).y, DateFields(s).m)

\* the day a comes after the day b in the calendar
ComesAfter(a, b) ==
    LET x == DateFields(a)
        y == DateFields(b)
    IN  \/ x.y > y.y
        \/ x.y = y.y /\ x.m > y.m
        \/ x.y = y.y /\ x.m = y.m /\ x.d > y.d

\* a query with a missing bound, a bound that is not written YYYY-MM-DD, or
\* two days of the calendar of which the first comes after the second
InvalidQuery(params) ==
    \/ params.date_from = << >> \/ params.date_to = << >>
    \/ ~dateRegex(params.date_from) \/ ~dateRegex(params.date_to)
    \/ /\ IsCalendarDate(params.date_from) /\ IsCalendarDate(params.date_to)
       /\ ComesAfter(params.date_from, params.date_to)

BatchDocuments ==
    {OfertaDocument(oferta, transporteConfig, endpoint, t) :
        oferta \in Ofertas,
        endpoint \in {transporteConfig.endpoints[i] :
                         i \in 1..Len(transporteConfig.endpoints)},
        t \in InitialDay..(InitialDay + MaxNow)}

Batches == SeqsUpTo(BatchDocuments, MaxBatchLen)

\* removeDuplicateOffers(ofertas) is called and returns
CallRemoveDuplicateOffers(r, ofertas) ==
    /\ SetRun(r, [IdleRun EXCEPT !.entry = "removeDuplicateOffers",
                                 !.pc = "done", !.outcome = "returned",
                                 !.ofertas = ofertas,
                                 !.ofertasUnicas = removeDuplicateOffers(ofertas)])
    /\ UNCHANGED << dbVars, now, runsStarted, scheduler >>

NextDedup == \E ofertas \in Batches : CallRemoveDuplicateOffers("manual", ofertas)

SpecDedup == Init /\ [][NextDedup]_vars

\* the positions of a batch that hold the first record of their id
FirstOccurrences(ofs) ==
    {i \in 1..Len(ofs) : \A j \in 1..(i - 1) : ofs[j].id # ofs[i].id}

\* the k-th smallest member of a set of positions
NthPosition(S, k) == CHOOSE i \in S : Cardinality({j \in S : j < i}) = k - 1

\* C11: removeDuplicateOffers returns a subsequence of its input, no longer
\* than the input, without two records of the same id, with every id of the
\* input, each id being represented by its first record in the input.
C11_DedupKeepsFirstOccurrences ==
    \A r \in Slots :
        run[r].entry = "removeDuplicateOffers" =>
            LET input == run[r].ofertas
                output == run[r].ofertasUnicas
                first == FirstOccurrences(input)
            IN  /\ Len(output) <= Len(input)
                /\ Len(output) = Cardinality(first)
                /\ \A k \in 1..Len(output) : output[k] = input[NthPosition(first, k)]
                /\ \A k, l \in 1..Len(output) : output[k].id = output[l].id => k = l
                /\ {input[i].id : i \in 1..Len(input)}
                       = {output[k].id : k \in 1..Len(output)}

\* C11's case: a batch of three records, the first and the third with the
\* same id and different content, of which the first two are kept
C11_Witness ==
    \E r \in Slots :
        /\ run[r].entry = "removeDuplicateOffers"
        /\ Len(run[r].ofertas) = 3
        /\ run[r].ofertas[1].id = run[r].ofertas[3].id
        /\ run[r].ofertas[1] # run[r].ofertas[3]
        /\ run[r].ofertas[1].id # run[r].ofertas[2].id
        /\ run[r].ofertasUnicas = << run[r].ofertas[1], run[r].ofertas[2] >>

(***************************************************************************)
(* SpecDb: direct calls of the methods of DatabaseService, one at a time.  *)
(***************************************************************************)
\* the documents the batches of a direct insertOfertas call can hold: every
\* id of the first business line, from every endpoint
DbDocuments ==
    {OfertaDocument(oferta, transporteConfig, endpoint, InitialDay) :
        oferta \in Ofertas,
        endpoint \in {transporteConfig.endpoints[i] :
                         i \in 1..Len(transporteConfig.endpoints)}}

DbBatches == SeqsUpTo(DbDocuments, MaxDbBatchLen)

\* the slot r is free for a call
Free(r) == run[r].pc \in {"idle", "done"}

\* a direct call of the method entry begins
DirectCall(entry) == [IdleRun EXCEPT !.entry = entry, !.storeAtCall = store]

\* connect() is called, up to client.connect()
CallConnect(r) ==
    /\ Free(r)
    /\ client' = TRUE
    /\ SetRun(r, [DirectCall("connect") EXCEPT !.pc = "connect"])
    /\ UNCHANGED << store, uniqueIndex, db, isConnected, now, runsStarted, scheduler >>

\* disconnect() is called: it returns at once without a client, and awaits
\* client.close() with one
CallDisconnect(r) ==
    /\ Free(r)
    /\ SetRun(r, IF client
                 THEN [DirectCall("disconnect") EXCEPT !.pc = "close"]
                 ELSE [DirectCall("disconnect") EXCEPT
                          !.pc = "done", !.outcome = "returned"])
    /\ UNCHANGED << dbVars, now, runsStarted, scheduler >>

\* client.close() answers: isConnected is reset, or disconnect() raises
ClientClose(r) ==
    /\ run[r].pc = "close"
    /\ \E ok \in BOOLEAN :
          IF ok
          THEN /\ isConnected' = FALSE
               /\ SetRun(r, [run[r] EXCEPT !.pc = "done", !.outcome = "returned"])
          ELSE /\ SetRun(r, [run[r] EXCEPT !.pc = "done", !.outcome = "thrown",
                                           !.error = StorageError])
               /\ UNCHANGED isConnected
    /\ UNCHANGED << store, uniqueIndex, client, db, now, runsStarted, scheduler >>

\* insertOfertas(batch) is called, up to its first insertOne
CallInsertOfertas(r, batch) ==
    /\ Free(r)
    /\ BagCardinality(store) + Len(batch) <= MaxStored
    /\ LET repeated == /\ run[r].entry = "insertOfertas"
                       /\ run[r].outcome = "returned"
                       /\ run[r].ofertasUnicas = batch
       IN  SetRun(r, InsertOfertasCall(
                         [DirectCall("insertOfertas") EXCEPT !.repeated = repeated],
                         batch, isConnectionActive, StoredKeys(store)))
    /\ UNCHANGED << dbVars, now, runsStarted, scheduler >>

\* the documents of the business line emprendimiento in the collection st
DocumentsOf(st, emprendimiento) ==
    LET docs == {d \in BagToSet(st) : d.emprendimiento = emprendimiento}
    IN  [d \in docs |-> st[d]]

\* getOfertasByEmprendimiento(emprendimiento), without dates: the documents
\* found (their order is left out)
CallGetOfertasByEmprendimiento(r, emprendimiento) ==
    /\ Free(r)
    /\ SetRun(r, IF ~isConnectionActive
                 THEN [DirectCall("getOfertasByEmprendimiento") EXCEPT
                          !.pc = "done", !.outcome = "thrown",
                          !.error = NotConnected]
                 ELSE [DirectCall("getOfertasByEmprendimiento") EXCEPT
                          !.pc = "done", !.outcome = "returned",
                          !.result = DocumentsOf(store, emprendimiento)])
    /\ UNCHANGED << dbVars, now, runsStarted, scheduler >>

\* the statistics of a business line: the number of its documents, the
\* number of those extracted today, and the latest extraction ("null"
\* without documents)
Estadisticas(st, emprendimiento, t) ==
    LET found == DocumentsOf(st, emprendimiento)
        today == [d \in {x \in DOMAIN found : x.fecha_extraccion >= t} |-> found[d]]
        days == {d.fecha_extraccion : d \in DOMAIN found}
    IN  [total |-> BagCardinality(found),
         hoy |-> BagCardinality(today),
         ultima_extraccion |->
             IF days = {} THEN "null"
             ELSE CHOOSE x \in days : \A y \in days : y <= x]

\* getEstadisticasEmprendimiento(emprendimiento)
CallGetEstadisticasEmprendimiento(r, emprendimiento) ==
    /\ Free(r)
    /\ SetRun(r, IF ~isConnectionActive
                 THEN [DirectCall("getEstadisticasEmprendimiento") EXCEPT
                          !.pc = "done", !.outcome = "thrown",
                          !.error = NotConnected]
                 ELSE [DirectCall("getEstadisticasEmprendimiento") EXCEPT
                          !.pc = "done", !.outcome = "returned",
                          !.result = Estadisticas(store, emprendimiento, now)])
    /\ UNCHANGED << dbVars, now, runsStarted, scheduler >>

\* limpiarOfertasAntiguas(dias) is called: it raises without a connection,
\* and returns the number of documents deleted otherwise
CallLimpiarOfertasAntiguas(r, dias) ==
    /\ Free(r)
    /\ IF ~isConnectionActive
       THEN /\ SetRun(r, [DirectCall("limpiarOfertasAntiguas") EXCEPT
                             !.pc = "done", !.outcome = "thrown",
                             !.error = NotConnected])
            /\ UNCHANGED store
       ELSE /\ store' = DeleteOlderThan(store, now - dias)
            /\ SetRun(r, [DirectCall("limpiarOfertasAntiguas") EXCEPT
                             !.pc = "done", !.outcome = "returned",
                             !.diasAntiguedad = dias,
                             !.result = BagCardinality(store)
                                            - BagCardinality(store')])
    /\ UNCHANGED << uniqueIndex, client, db, isConnected, now, runsStarted, scheduler >>

EmprendimientoIds == {emprendimientos[i].id : i \in 1..Len(emprendimientos)}

NextDb ==
    \/ CallConnect("manual")
    \/ ClientConnect("manual")
    \/ CreateIndexes("manual")
    \/ CallDisconnect("manual")
    \/ ClientClose("manual")
    \/ \E batch \in DbBatches : CallInsertOfertas("manual", batch)
    \/ InsertOneResponse("manual")
    \/ \E e \in EmprendimientoIds : CallGetOfertasByEmprendimiento("manual", e)
    \/ \E e \in EmprendimientoIds : CallGetEstadisticasEmprendimiento("manual", e)
    \/ \E dias \in DiasAntiguedad : CallLimpiarOfertasAntiguas("manual", dias)
    \/ Tick

SpecDb == Init /\ [][NextDb]_vars

\* a slot in which the method entry of DatabaseService was called directly
InDb(r, entry) == run[r].entry = entry

\* C12: when insertOfertas has returned and is called again with the same
\* batch, and returns again, the store is the same after the second call as
\* after the first.
C12_InsertTwiceIsInsertOnce ==
    \A r \in Slots :
        (/\ InDb(r, "insertOfertas") /\ run[r].repeated
         /\ run[r].pc = "done" /\ run[r].outcome = "returned") =>
            store = run[r].storeAtCall

\* the number of results of kind kind in a log of insertOne results
CountOf(log, kind) == Cardinality({i \in 1..Len(log) : log[i] = kind})

\* C13: on a connected store, an insertOfertas call whose insertOne calls
\* fail with duplicate-key errors only returns, with insertedCount +
\* duplicateCount = the length of the batch and insertedCount = the number
\* of records added to the store; at the first other error it raises that
\* error, and no record after the failing one is submitted.
C13_DuplicatesCountedOtherErrorsRaised ==
    \A r \in Slots :
        (InDb(r, "insertOfertas") /\ run[r].pc = "done" /\ isConnectionActive) =>
            LET log == run[r].insertLog
                batch == run[r].ofertasUnicas
                added == BagCardinality(store) - BagCardinality(run[r].storeAtCall)
            IN  /\ Len(log) <= Len(batch)
                /\ added = CountOf(log, "inserted")
                /\ IF CountOf(log, "error") = 0
                   THEN /\ run[r].outcome = "returned"
                        /\ Len(log) = Len(batch)
                        /\ run[r].result.insertedCount + run[r].result.duplicateCount
                               = Len(batch)
                        /\ run[r].result.insertedCount = added
                        /\ run[r].result.duplicateCount = CountOf(log, "duplicate")
                   ELSE /\ run[r].outcome = "thrown"
                        /\ run[r].error = StorageError
                        /\ CountOf(log, "error") = 1
                        /\ log[Len(log)] = "error"

\* C13's case: a batch of two records, the first refused as a duplicate and
\* the second inserted
C13_Witness ==
    \E r \in Slots :
        /\ InDb(r, "insertOfertas") /\ run[r].pc = "done" /\ isConnectionActive
        /\ run[r].outcome = "returned"
        /\ run[r].insertLog = << "duplicate", "inserted" >>
        /\ run[r].result = [insertedCount |-> 1, duplicateCount |-> 1]

\* C14: no step of an insertOfertas call changes or removes a stored record:
\* every record in the store before the step is in the store after it, with
\* all its fields (endpoint name and extraction day included), also when
\* the batch holds a record with the same (id, business line) pair.
C14_StoredRecordsNeverUpdated ==
    [][\A r \in Slots :
          (run'[r].entry = "insertOfertas" /\ run'[r] # run[r]) =>
              \A d \in BagToSet(store) :
                  /\ d \in BagToSet(store')
                  /\ CopiesIn(d, store') >= CopiesIn(d, store)]_vars

\* C14's case: a call has returned whose batch held a record with the pair
\* of a stored record and another endpoint name; it was refused as a
\* duplicate and the stored record is as it was
C14_Witness ==
    \E r \in Slots :
        /\ InDb(r, "insertOfertas") /\ run[r].pc = "done"
        /\ run[r].outcome = "returned"
        /\ \E i \in 1..Len(run[r].insertLog) :
              /\ run[r].insertLog[i] = "duplicate"
              /\ run[r].ofertasUnicas[i] \notin BagToSet(store)
              /\ \E d \in BagToSet(run[r].storeAtCall) :
                    /\ IndexKey(d) = IndexKey(run[r].ofertasUnicas[i])
                    /\ d.endpoint_name # run[r].ofertasUnicas[i].endpoint_name
                    /\ d \in BagToSet(store)

\* C15: over the extraction runs and the retention sweeps a record is
\* created once per (id, business line) pair; in particular no step adds a
\* record to the store whose pair the store already holds.
C15_PairCreatedOnce ==
    [][\A d \in BagToSet(store') :
          CopiesIn(d, store') > CopiesIn(d, store) =>
              IndexKey(d) \notin StoredKeys(store)]_vars

StoreOperations ==
    {"insertOfertas", "getOfertasByEmprendimiento",
     "getEstadisticasEmprendimiento", "limpiarOfertasAntiguas"}

\* C17: while the service is disconnected (never connected, or after
\* disconnect) every store operation fails with the not-connected error and
\* leaves the store as it was when the operation was called.
C17_DisconnectedOperationsFail ==
    \A r \in Slots :
        (run[r].entry \in StoreOperations /\ ~isConnected) =>
            /\ run[r].pc = "done"
            /\ run[r].outcome = "thrown"
            /\ run[r].error = NotConnected
            /\ store = run[r].storeAtCall

\* C17's case: after a connect, an insert and a disconnect, insertOfertas
\* with a non-empty batch was refused and the store kept its records
C17_Witness ==
    \E r \in Slots :
        /\ InDb(r, "insertOfertas") /\ run[r].pc = "done"
        /\ ~isConnected /\ client
        /\ Len(run[r].ofertasUnicas) > 0
        /\ run[r].error = NotConnected
        /\ BagCardinality(store) > 0

\* C18: whatever the mail endpoint does with a report or an error
\* notification, the send does not raise: the step that follows it leaves the
\* store alone, pushes the summary the business line had (its counts, or the
\* error summary), and goes on with the next business line.
C18_FailedNotificationChangesNothing ==
    [][\A r \in Slots :
          (InRun(r) /\ run[r].pc \in {"report", "errorReport"}
                    /\ run'[r] # run[r]) =>
              LET emprendimiento == emprendimientos[run[r].empIdx]
              IN  /\ store' = store
                  /\ run'[r].pc = "nextEmp"
                  /\ run'[r].outcome = run[r].outcome
                  /\ run'[r].empIdx = run[r].empIdx + 1
                  /\ run'[r].emailSent \in {"true", "false"}
                  /\ run'[r].summaries =
                         Append(run[r].summaries,
                                IF run[r].pc = "report"
                                THEN Summary(emprendimiento,
                                             run[r].ofertasUnicas,
                                             run[r].insertedCount)
                                ELSE ErrorSummary(emprendimiento))]_vars

\* C18's case: the report of the first business line was not delivered, and
\* its summary counts the record that the line stored
C18_Witness ==
    \E r \in Slots :
        /\ InRun(r) /\ run[r].pc = "nextEmp"
        /\ run[r].emailSent = "false"
        /\ Len(run[r].summaries) = 1
        /\ run[r].summaries[1].nuevas_ofertas = 1
        /\ BagCardinality(store) = 1

\* the page requests of the call s that have been answered, by a page or by
\* a failure
Answered(s) == Len(s.pagesLog) + (IF s.failedPage # 0 THEN 1 ELSE 0)

\* the page requests of the call s that are in flight
InFlight(s) == Len(s.requests) - Answered(s)

\* C19: in getAllOfertas at most one page request is in flight; pages are
\* requested in the order 1, 2, ...; the request for page 1 is issued by the
\* call itself, with no delay; the request for page k+1 is issued only when
\* the answer to page k has been received and one delay has elapsed since.
C19_OneRequestAtATime ==
    [][\A r \in Slots :
          InFetch(r)' =>
              /\ InFlight(run'[r]) \in {0, 1}
              /\ (InFlight(run'[r]) = 1) <=> (run'[r].pc = "awaitPage")
              /\ \A i \in 1..Len(run'[r].requests) : run'[r].requests[i] = i
              /\ (run'[r].requests # run[r].requests /\ run'[r].requests # << >>) =>
                     LET page == Len(run'[r].requests)
                     IN  IF page = 1
                         THEN run[r].pc \in {"idle", "done"}
                         ELSE /\ run[r].pc = "delay"
                              /\ InFetch(r)
                              /\ run'[r].requests = Append(run[r].requests, page)
                              /\ Len(run[r].pagesLog) = page - 1
                              /\ InFlight(run[r]) = 0]_vars

\* C19's case: page 1 was answered, the delay elapsed, and the request for
\* page 2 is the one in flight
C19_Witness ==
    \E r \in Slots :
        /\ InFetch(r) /\ run[r].pc = "awaitPage"
        /\ run[r].requests = << 1, 2 >>
        /\ Len(run[r].pagesLog) = 1

(***************************************************************************)
(* The triggers of an extraction run: the cron callback of TaskScheduler   *)
(* in the slot "scheduled", the routes POST /extraction/run-daily and      *)
(* /extraction/run-initial in the slot "manual".  Both call the same       *)
(* ExtractionService, and each awaits its run.  The remote source answers  *)
(* every query with a failure or with a single page of one oferta.         *)
(***************************************************************************)
TriggerResponses ==
    {resp \in ApiResponses :
        ~resp.ok \/ (resp.pageCount = 1 /\ Len(resp.resultados) = 1
                                        /\ resp.resultados[1].id = 1)}

\* the application starts: startAllTasks(), start(), then the server listens
AppStart ==
    /\ ~scheduler.listening
    /\ scheduler' = [start(startAllTasks(scheduler)) EXCEPT !.listening = TRUE]
    /\ UNCHANGED << run, dbVars, now, runsStarted >>

\* POST /extraction/schedule-start: start(), and the status is reported
PostScheduleStart ==
    /\ scheduler.listening
    /\ LET started == start(scheduler)
       IN  scheduler' = [started EXCEPT !.lastRoute = "schedule-start",
                                        !.response = getStatus(started)]
    /\ UNCHANGED << run, dbVars, now, runsStarted >>

\* POST /extraction/schedule-stop: stopAllTasks(), and the status is reported
PostScheduleStop ==
    /\ scheduler.listening
    /\ LET stopped == stopAllTasks(scheduler)
       IN  scheduler' = [stopped EXCEPT !.lastRoute = "schedule-stop",
                                        !.response = getStatus(stopped)]
    /\ UNCHANGED << run, dbVars, now, runsStarted >>

\* the cron callback of startDailyExtraction, which fires while the daily
\* task is started: runDailyExtraction()
CronDailyExtraction ==
    /\ TaskGetStatus(scheduler.dailyExtractionTask)
    /\ RunCompleteExtraction("scheduled", FALSE)

\* POST /extraction/run-daily: runDailyExtraction()
PostRunDaily ==
    /\ scheduler.listening
    /\ RunCompleteExtraction("manual", FALSE)

\* POST /extraction/run-initial: runInitialExtraction()
PostRunInitial ==
    /\ scheduler.listening
    /\ RunCompleteExtraction("manual", TRUE)

\* the remote source answers the page request in flight of slot r
TriggerPageResponse(r) ==
    /\ run[r].pc = "awaitPage"
    /\ \E resp \in TriggerResponses :
          SetRun(r, FetchPageResume(run[r], resp, now))
    /\ UNCHANGED << dbVars, now, runsStarted, scheduler >>

NextTriggers ==
    \/ AppStart
    \/ PostScheduleStart
    \/ PostScheduleStop
    \/ CronDailyExtraction
    \/ PostRunDaily
    \/ PostRunInitial
    \/ \E r \in Slots : ClientConnect(r)
    \/ \E r \in Slots : CreateIndexes(r)
    \/ \E r \in Slots : StepNextEmprendimiento(r)
    \/ \E r \in Slots : StepNextEndpoint(r)
    \/ \E r \in Slots : TriggerPageResponse(r)
    \/ \E r \in Slots : PauseElapsed(r)
    \/ \E r \in Slots : InsertOneResponse(r)
    \/ \E r \in Slots : ReportResponse(r)
    \/ \E r \in Slots : ErrorReportResponse(r)

SpecTriggers == Init /\ [][NextTriggers]_vars

\* an extraction run is in progress in slot r
RunInProgress(r) == InRun(r) /\ run[r].pc \notin {"idle", "done"}

\* C20: at most one extraction run is in progress at any time, however the
\* scheduled trigger and the manual run-daily and run-initial requests
\* interleave.
C20_AtMostOneRunInProgress ==
    Cardinality({r \in Slots : RunInProgress(r)}) <= 1

\* C21: schedule-start starts periodic scheduling from any scheduler state:
\* when schedule-start was the last scheduling route served, the daily
\* extraction task and the weekly cleanup task are started and the status
\* it reported shows both active.
C21_ScheduleStartActivatesTasks ==
    scheduler.lastRoute = "schedule-start" =>
        /\ TaskGetStatus(scheduler.dailyExtractionTask)
        /\ TaskGetStatus(scheduler.cleanupTask)
        /\ scheduler.response.dailyTaskActive
        /\ scheduler.response.cleanupTaskActive

(***************************************************************************)
(* The retention sweep called directly, on a store filled by insertOfertas *)
(* with documents of both business lines whose extraction day and          *)
(* publication day vary around the limit.                                  *)
(***************************************************************************)
SweepDocuments ==
    [id : {1},
     emprendimiento : EmprendimientoIds,
     endpoint_name : {transporteConfig.endpoints[1]},
     fecha_extraccion : {InitialDay - 1, InitialDay},
     fecha_publicacion : {InitialDay - 1, InitialDay + 1}]

SweepBatches == SeqsUpTo(SweepDocuments, MaxSweepBatchLen)

NextSweep ==
    \/ CallConnect("manual")
    \/ ClientConnect("manual")
    \/ CreateIndexes("manual")
    \/ \E batch \in SweepBatches : CallInsertOfertas("manual", batch)
    \/ InsertOneResponse("manual")
    \/ \E dias \in DiasAntiguedad : CallLimpiarOfertasAntiguas("manual", dias)
    \/ Tick

SpecSweep == Init /\ [][NextSweep]_vars

\* C22: a limpiarOfertasAntiguas(N) that returns has deleted every copy of
\* every stored record, of any business line, whose extraction day is
\* strictly before now - N, has left every other record (the boundary
\* included) as it was, and returns the number of records deleted; the
\* publication day plays no part.
C22_SweepDeletesStrictlyOlder ==
    [][\A r \in Slots :
          (/\ run'[r] # run[r]
           /\ InDb(r, "limpiarOfertasAntiguas")'
           /\ run'[r].outcome = "returned") =>
              LET fechaLimite == now - run'[r].diasAntiguedad
              IN  /\ \A d \in BagToSet(store) \cup BagToSet(store') :
                         CopiesIn(d, store') =
                             IF d.fecha_extraccion < fechaLimite
                             THEN 0 ELSE CopiesIn(d, store)
                  /\ run'[r].result =
                         BagCardinality(store) - BagCardinality(store')]_vars

\* C22's case: of two stored records the sweep deleted one, and the one it
\* kept, of the second business line, was published before the one deleted
C22_Witness ==
    \E r \in Slots :
        /\ InDb(r, "limpiarOfertasAntiguas") /\ run[r].outcome = "returned"
        /\ run[r].result = 1
        /\ BagCardinality(run[r].storeAtCall) = 2
        /\ \E kept \in BagToSet(store) :
              \E deleted \in BagToSet(run[r].storeAtCall) \ BagToSet(store) :
                  /\ kept.emprendimiento = emprendimientos[2].id
                  /\ kept.fecha_publicacion < deleted.fecha_publicacion
                  /\ kept.fecha_extraccion > deleted.fecha_extraccion

\* the records of the batch of the call s that its insertOne calls inserted,
\* in batch order
NewlyInserted(s) ==
    LET RECURSIVE Pick(_)
        Pick(i) == IF i > Len(s.insertLog) THEN << >>
                   ELSE (IF s.insertLog[i] = "inserted"
                         THEN << s.ofertasUnicas[i] >> ELSE << >>) \o Pick(i + 1)
    IN  Pick(1)

\* the records of the batch found stored are the trailing ones
StoredAreTrailing(s) ==
    \A i, j \in 1..Len(s.foundStored) :
        (i < j /\ s.foundStored[i]) => s.foundStored[j]

\* C23: when a report is sent, if the records of the deduplicated batch that
\* were already stored are its trailing ones, the report lists exactly the
\* records this run inserted; if an already-stored record precedes a new
\* one, the report lists an already-stored record and misses an inserted one.
C23_SelectionExactIffTrailing ==
    \A r \in Slots :
        (InRun(r) /\ run[r].pc = "report") =>
            LET s == run[r]
                n == Len(s.ofertasUnicas)
            IN  IF StoredAreTrailing(s)
                THEN s.ofertasNuevas = NewlyInserted(s)
                ELSE /\ \E i \in 1..Len(s.ofertasNuevas) : s.foundStored[i]
                     /\ \E j \in (Len(s.ofertasNuevas) + 1)..n :
                           /\ ~s.foundStored[j]
                           /\ s.insertLog[j] = "inserted"

\* the same statement for the runs that find the unique index in place
C23_WithUniqueIndex ==
    uniqueIndex => C23_SelectionExactIffTrailing

\* C24: within a business line a pause precedes the fetch of every query
\* configuration after the first, also when the fetch before it failed:
\* while the k-th configuration is fetched, k - 1 pauses have been made.
C24_PauseBetweenFetches ==
    \A r \in Slots :
        (InRun(r) /\ run[r].pc \in {"awaitPage", "delay"}) =>
            run[r].pauses = run[r].endpointIdx - 1

\* the step of processEmprendimiento the run s is in: 1 the fetches, 2 the
\* insert, 3 the notification, 0 between two business lines
Stage(s) ==
    CASE s.pc \in {"nextEndpoint", "awaitPage", "delay", "pause"} -> 1
      [] s.pc = "insert" -> 2
      [] s.pc \in {"report", "errorReport"} -> 3
      [] OTHER -> 0

\* C25: in a run the business lines are processed one after another in
\* configuration order, and for each line the fetches come first, then the
\* insert, then the notification; the run moves to line k+1 only when the
\* report or error report of line k has completed and its summary is pushed,
\* and every notification is the one of the line being processed.
C25_LinesAndStepsInOrder ==
    [][\A r \in Slots :
          (/\ InRun(r) /\ InRun(r)' /\ run'[r] # run[r]
           /\ run[r].pc \notin {"idle", "done"} /\ run[r].empIdx >= 1) =>
              LET s == run[r]
                  n == run'[r]
              IN  /\ n.empIdx \in {s.empIdx, s.empIdx + 1}
                  /\ n.empIdx = s.empIdx =>
                         \/ n.pc = "done" /\ Stage(s) = 0
                         \/ Stage(n) >= Stage(s) /\ Stage(n) >= 1
                  /\ n.empIdx = s.empIdx + 1 =>
                         /\ Stage(s) = 3
                         /\ n.pc = "nextEmp"
                         /\ Len(n.summaries) = s.empIdx
                  /\ Stage(n) >= 1 =>
                         /\ n.empIdx <= Len(emprendimientos)
                         /\ Len(n.summaries) = n.empIdx - 1
                  /\ n.notifications # s.notifications =>
                         /\ Stage(s) \in {1, 2} /\ Stage(n) = 3
                         /\ \E kind \in {"report", "error"} :
                               n.notifications =
                                   Append(s.notifications,
                                          Mail(kind, emprendimientos[s.empIdx]))]_vars

\* C25's case: the second business line is being fetched after the first
\* one was fetched, stored and reported
C25_Witness ==
    \E r \in Slots :
        /\ InRun(r) /\ run[r].pc = "awaitPage" /\ run[r].empIdx = 2
        /\ Len(run[r].summaries) = 1
        /\ run[r].summaries[1].nuevas_ofertas = 1
        /\ run[r].notifications = << Mail("report", emprendimientos[1]) >>

\* the ids that the fetch recorded in the attempt a returned
IdsOf(a) == {a.docs[i].id : i \in 1..Len(a.docs)}

\* C26: when the loop over the endpoints of business line L ends and the
\* deduplicated batch is submitted, the batch holds one record for each id
\* that a fetch of this line returned, and each record carries L's id and
\* the name of the first endpoint, in configuration order, whose fetch
\* returned its id.
C26_MetadataOfFirstEndpoint ==
    [][\A r \in Slots :
          (/\ InRun(r) /\ run[r].pc = "nextEndpoint"
           /\ run'[r].pc \in {"insert", "report", "errorReport"}) =>
              LET s == run[r]
                  batch == run'[r].ofertasUnicas
                  emprendimiento == emprendimientos[s.empIdx]
                  First(id) ==
                      CHOOSE i \in 1..Len(s.attempts) :
                          /\ id \in IdsOf(s.attempts[i])
                          /\ \A j \in 1..(i - 1) : id \notin IdsOf(s.attempts[j])
              IN  /\ {batch[i].id : i \in 1..Len(batch)}
                         = UNION {IdsOf(s.attempts[i]) : i \in 1..Len(s.attempts)}
                  /\ \A i, j \in 1..Len(batch) :
                         batch[i].id = batch[j].id => i = j
                  /\ \A i \in 1..Len(batch) :
                         /\ batch[i].emprendimiento = emprendimiento.id
                         /\ batch[i].endpoint_name
                                = emprendimiento.endpoints[First(batch[i].id)]]_vars

\* C26's case: the batch submitted for the first business line holds id 1,
\* first returned by the first endpoint, and id 2, returned by the second
C26_Witness ==
    \E r \in Slots :
        /\ InRun(r) /\ run[r].pc = "insert" /\ run[r].empIdx = 1
        /\ Len(run[r].ofertasUnicas) = 2
        /\ run[r].ofertasUnicas[1].id = 1
        /\ run[r].ofertasUnicas[1].endpoint_name = emprendimientos[1].endpoints[1]
        /\ run[r].ofertasUnicas[2].id = 2
        /\ run[r].ofertasUnicas[2].endpoint_name = emprendimientos[1].endpoints[2]

\* the notifications of the run of slot r for business line i
NotificationsFor(r, i) == MailsFor(r, "report", i) \cup MailsFor(r, "error", i)

\* C27: in every run, every business line with recipients gets exactly one
\* notification, a report or an error report: never two while the run is in
\* progress, and exactly one when the run is over.
C27_ExactlyOneNotification ==
    \A r \in Slots : InRun(r) =>
        \A i \in 1..Len(emprendimientos) :
            Len(emprendimientos[i].emailRecipients) > 0 =>
                /\ Cardinality(NotificationsFor(r, i)) <= 1
                /\ run[r].pc = "done" =>
                       Cardinality(NotificationsFor(r, i)) = 1

\* the same statement for the runs that return their summaries
C27_InReturnedRuns ==
    \A r \in Slots : (InRun(r) /\ run[r].outcome # "thrown") =>
        \A i \in 1..Len(emprendimientos) :
            Len(emprendimientos[i].emailRecipients) > 0 =>
                /\ Cardinality(NotificationsFor(r, i)) <= 1
                /\ run[r].pc = "done" =>
                       Cardinality(NotificationsFor(r, i)) = 1

\* C28: fetch failures alone do not make a business line fail.  No step of
\* the fetches of a run changes the store; when every endpoint of the line
\* has failed, the empty batch is submitted without touching the store and a
\* report with no record is sent, not an error report; the summary pushed
\* after it has total 0, new 0 and all the endpoint names of the line; and
\* an error report is only ever sent for a line whose persistence step raised.
C28_FetchFailuresDoNotFailLine ==
    [][\A r \in Slots :
          (InRun(r) /\ InRun(r)' /\ run'[r] # run[r]) =>
              LET s == run[r]
                  n == run'[r]
              IN  /\ Stage(s) = 1 => store' = store
                  /\ (Stage(s) = 1 /\ n.fetchesFailed) =>
                         /\ n.pc = "report"
                         /\ n.ofertasUnicas = << >> /\ n.ofertasNuevas = << >>
                         /\ n.notifications =
                                Append(s.notifications,
                                       Mail("report", emprendimientos[s.empIdx]))
                  /\ s.fetchesFailed =>
                         /\ store' = store
                         /\ n.pc = "nextEmp"
                         /\ n.summaries =
                                Append(s.summaries,
                                       [emprendimiento |->
                                            emprendimientos[s.empIdx].name,
                                        total_ofertas |-> 0,
                                        nuevas_ofertas |-> 0,
                                        endpoints_consultados |->
                                            emprendimientos[s.empIdx].endpoints])
                  /\ \A i \in 1..Len(emprendimientos) :
                         MailsFor(r, "error", i)' # {} => i \in n.persistFailed]_vars

\* C28's case: every endpoint of the first business line failed, the store
\* holds a record of an earlier run, and the empty report is being sent
C28_Witness ==
    \E r \in Slots :
        /\ InRun(r) /\ run[r].pc = "report" /\ run[r].empIdx = 1
        /\ run[r].fetchesFailed
        /\ run[r].ofertasNuevas = << >>
        /\ BagCardinality(store) > 0

\* C29: after connect() has raised, for a failed client connection or a
\* failed index creation, isConnectionActive() is false: a run that ended by
\* raising (which only connect() makes it do) leaves the connection inactive.
C29_FailedConnectLeavesInactive ==
    \A r \in Slots :
        (InRun(r) /\ run[r].pc = "done" /\ run[r].outcome = "thrown") =>
            ~isConnectionActive

\* C30: there is no rollback of a partly stored batch.  The step in which
\* insertOfertas aborts on a storage error leaves the store, and so the
\* records the call has inserted, as they are, and sends the error report;
\* the step that follows the error report leaves the store alone and pushes
\* a summary with total 0 and new 0; no report is sent for the line.
C30_NoRollbackOfPartialBatch ==
    [][\A r \in Slots :
          (InRun(r) /\ InRun(r)' /\ run'[r] # run[r]) =>
              LET s == run[r]
                  n == run'[r]
              IN  /\ (s.pc = "insert" /\ n.pc \notin {"insert", "report"}) =>
                         /\ store' = store
                         /\ n.pc = "errorReport"
                         /\ n.insertedNow = s.insertedNow
                         /\ n.insertedCount = s.insertedCount
                         /\ s.empIdx \in n.persistFailed
                         /\ n.notifications =
                                Append(s.notifications,
                                       Mail("error", emprendimientos[s.empIdx]))
                  /\ s.pc = "errorReport" =>
                         /\ store' = store
                         /\ Len(n.summaries) = s.empIdx
                         /\ n.summaries[s.empIdx].total_ofertas = 0
                         /\ n.summaries[s.empIdx].nuevas_ofertas = 0
                         /\ \A k \in 1..Len(n.notifications) :
                                n.notifications[k]
                                    # Mail("report", emprendimientos[s.empIdx])]_vars

\* C30's case: the second insertOne of a batch failed with a storage error,
\* the first record is stored, and the error report is being sent
C30_Witness ==
    \E r \in Slots :
        /\ InRun(r) /\ run[r].pc = "errorReport"
        /\ run[r].insertLog = << "inserted", "error" >>
        /\ run[r].insertedCount = 1
        /\ run[r].ofertasUnicas[1] \in BagToSet(store)
        /\ MailsFor(r, "report", run[r].empIdx) = {}

====
